---- MODULE Spec2Model ----
(***************************************************************************)
(* Model of dramabox_downloader.py: the catalog scan, the Excel history    *)
(* ledger, the full-book fetch with its thread pool, and the menu          *)
(* workflows built on them.                                                *)
(*                                                                         *)
(* Representation.  A Python string that the program only compares is a    *)
(* TLA+ string; the free-text 'episode' field, whose characters the        *)
(* program filters, is a sequence of one-character strings.  A JSON value  *)
(* whose type matters is a record with a tag field t.  A destination path  *)
(* is the triple <<folder, chapter id, extension>> (ids hold no '_').      *)
(* The DownloadDate column of the ledger is the wall clock and is left out *)
(* of the rows; nothing in the program reads it.                           *)
(***************************************************************************)
EXTENDS Integers, Sequences, FiniteSets, TLC

\* ------------------------------------------------------------------ bounds
\* Menu choices made in one run of main()'s loop.
MaxOps == 2
\* Longest listing page the server returns.
MaxPageLen == 2

\* ------------------------------------------------------- program constants
MAX_WORKERS == 5

\* ------------------------------------------------------------ JSON values
Absent == [t |-> "absent"]
JNull == [t |-> "null"]
JStr(s) == [t |-> "str", v |-> s]
JInt(n) == [t |-> "int", v |-> n]
JList(q) == [t |-> "list", v |-> q]

DigitChars == <<"0", "1", "2", "3", "4", "5", "6", "7", "8", "9">>

\* Python's str() on a JSON value: an int prints as its decimal digits, a
\* string is itself, None prints as "None".
PyStr(j) ==
    CASE j.t = "str" -> j.v
      [] j.t = "int" -> DigitChars[j.v + 1]
      [] OTHER -> "None"

\* dict.get(k1, dict.get(k2)): the first key wins when it is present, whatever
\* its value; a key that is missing everywhere gives None.
GetEither(first, second) ==
    IF first # Absent THEN first ELSE IF second # Absent THEN second ELSE JNull

IsDigit(c) == \E i \in 1..10 : DigitChars[i] = c
DigitValue(c) == (CHOOSE i \in 1..10 : DigitChars[i] = c) - 1

RECURSIVE DecimalValue(_)
DecimalValue(ds) ==
    IF ds = <<>> THEN 0
    ELSE 10 * DecimalValue(SubSeq(ds, 1, Len(ds) - 1)) + DigitValue(ds[Len(ds)])

\* int(''.join(filter(str.isdigit, eps_str))) with the except branch: no digit
\* at all makes int('') raise, and the count is 0.
ParseEpisodeCount(text) ==
    LET ds == SelectSeq(text, IsDigit)
    IN IF ds = <<>> THEN 0 ELSE DecimalValue(ds)

\* str(item.get('episode', '0'))
EpisodeText(item) == IF item.episode = Absent THEN <<"0">> ELSE item.episode.v

\* str(item.get('id', item.get('bookId')))
ItemId(item) == PyStr(GetEither(item.id, item.bookId))

\* The book_obj built for a catalog item that is new.
BookObj(item) ==
    [id |-> ItemId(item),
     name |-> item.title,
     chapterCount |-> ParseEpisodeCount(EpisodeText(item))]

\* ------------------------------------------------------------- the server
\* Items the listing endpoint can hand out.  The ids "1" and 1 collide after
\* str(); the third carries both keys and no 'episode'; the last is a JSON
\* string, which has no .get.
CatalogItems ==
    {[t |-> "dict", id |-> JStr("1"), bookId |-> Absent, title |-> "T1", episode |-> JStr(<<"2", " ", "E">>)],
     [t |-> "dict", id |-> Absent, bookId |-> JInt(1), title |-> "T1", episode |-> JStr(<<"1", "E", "2">>)],
     [t |-> "dict", id |-> JStr("2"), bookId |-> JStr("1"), title |-> "T2", episode |-> Absent],
     JStr("x")}

RECURSIVE SeqsUpTo(_, _)
SeqsUpTo(S, n) ==
    IF n = 0 THEN {<<>>}
    ELSE LET shorter == SeqsUpTo(S, n - 1)
         IN shorter \cup {Append(s, x) : s \in {q \in shorter : Len(q) = n - 1}, x \in S}

\* What get_with_retry(url).json() gives for a listing page: a dict with or
\* without 'status' and 'data', a bare list, or a failure (retries exhausted,
\* body not JSON).
ListingResponsesOver(pages) ==
    {[kind |-> "dict", status |-> s, data |-> JList(p)] :
        s \in {"true", "absent"}, p \in pages}
    \cup {[kind |-> "dict", status |-> "true", data |-> Absent]}
    \cup {[kind |-> "list", v |-> p] : p \in pages}
    \cup {[kind |-> "fail"]}

\* The scanner's specification lets the server answer with any page over
\* CatalogItems; the whole-program specification keeps to a small catalog.
ScanListing == ListingResponsesOver(SeqsUpTo(CatalogItems, MaxPageLen))

ProgramItems ==
    {[t |-> "dict", id |-> JStr("1"), bookId |-> Absent, title |-> "T1", episode |-> JStr(<<"2", " ", "E">>)],
     [t |-> "dict", id |-> Absent, bookId |-> JInt(2), title |-> "T2", episode |-> JStr(<<"1">>)]}

ProgramListing ==
    {[kind |-> "dict", status |-> "true", data |-> JList(p)] :
        p \in SeqsUpTo(ProgramItems, 1)}
    \cup {[kind |-> "fail"]}

\* Lines 287-294: both dict branches take resp["data"]; a dict without 'data'
\* leaves items empty.
ItemsOf(resp) ==
    IF resp.kind = "dict"
    THEN IF resp.data # Absent THEN resp.data.v ELSE <<>>
    ELSE IF resp.kind = "list" THEN resp.v ELSE <<>>

\* ------------------------------------------------------------ the ledger
NoRecord == [BookID |-> "", Title |-> "", TotalChapters |-> -1, Status |-> "None"]

\* load_history without the except clause of line 127 turning a failed read
\* into an empty frame.
load_history_whatever(file, readOk) == file

\* load_history: the rows of the file, or an empty frame when the file is
\* missing or cannot be read.
load_history(file, readOk) == IF readOk THEN file ELSE <<>>

\* save_to_history without line 141: the new row is appended to all loaded rows.
SavedFrameAppendOnly(df, book_id, title, total_chapters, status) ==
    Append(df, [BookID |-> book_id, Title |-> title,
                TotalChapters |-> total_chapters, Status |-> status])

\* The frame save_to_history hands to to_excel: the loaded rows without the
\* ones of book_id, then the new row.
SavedFrame(df, book_id, title, total_chapters, status) ==
    Append(SelectSeq(df, LAMBDA r : r.BookID # book_id),
           [BookID |-> book_id, Title |-> title,
            TotalChapters |-> total_chapters, Status |-> status])

\* save_to_history: the file after the call.  A failed to_excel is swallowed
\* and leaves the file as it was.
save_to_history(file, readOk, writeOk, book_id, title, total_chapters, status) ==
    IF writeOk
    THEN SavedFrame(load_history(file, readOk), book_id, title, total_chapters, status)
    ELSE file

\* check_is_downloaded: the first row of book_id, or None.
check_is_downloaded(file, readOk, book_id) ==
    LET df == load_history(file, readOk)
        hits == SelectSeq(df, LAMBDA r : r.BookID = book_id)
    IN IF hits = <<>> THEN NoRecord ELSE hits[1]

\* Line 350 with >= in place of >.
NeedsDownloadOrEqual(b, hist) ==
    hist = NoRecord \/ b.chapterCount >= hist.TotalChapters

\* The test of line 350.
NeedsDownload(b, hist) ==
    hist = NoRecord \/ b.chapterCount > hist.TotalChapters

\* ------------------------------------------------- the detail endpoint
\* Python truthiness of a JSON scalar.
Truthy(j) ==
    CASE j.t = "str" -> j.v # ""
      [] j.t = "int" -> j.v # 0
      [] j.t = "bool" -> j.v
      [] OTHER -> FALSE

\* a or b
PyOr(a, b) == IF Truthy(a) THEN a ELSE b

JTrue == [t |-> "bool", v |-> TRUE]
JFalse == [t |-> "bool", v |-> FALSE]

\* An info block (dramaInfo / book): the keys the program reads, and whether
\* the dict holds any other key.  {} is the only falsy one.
EmptyInfo == [bookId |-> Absent, id |-> Absent, bookName |-> Absent, title |-> Absent,
              other |-> FALSE]
InfoIsEmpty(info) == info = EmptyInfo

Info1 == [bookId |-> JStr("1"), id |-> JStr("9"), bookName |-> JStr("N1"), title |-> Absent,
          other |-> TRUE]
Info2 == [bookId |-> Absent, id |-> JInt(2), bookName |-> Absent, title |-> JStr("N2"),
          other |-> TRUE]
InfoBare == [bookId |-> Absent, id |-> Absent, bookName |-> Absent, title |-> Absent,
             other |-> TRUE]

\* Episodes of a detail payload.
Chap1 == [id |-> JInt(1), index |-> JInt(0), mp4 |-> JStr("v1"), url |-> Absent,
          cover |-> JStr("c1"), thumbnail |-> Absent]
Chap2 == [id |-> JStr("2"), index |-> JInt(1), mp4 |-> JStr(""), url |-> JStr("v2"),
          cover |-> Absent, thumbnail |-> Absent]
Chap3 == [id |-> JStr("3"), index |-> JInt(2), mp4 |-> Absent, url |-> Absent,
          cover |-> JNull, thumbnail |-> JStr("c1")]
Chap4 == [id |-> JStr("4"), index |-> JInt(1), mp4 |-> JStr("v2"), url |-> Absent,
          cover |-> Absent, thumbnail |-> Absent]
\* An episode whose id is the number 2: str() makes it the id of Chap2.
Chap5 == [id |-> JInt(2), index |-> JInt(2), mp4 |-> JStr("v1"), url |-> Absent,
          cover |-> Absent, thumbnail |-> Absent]

\* The length of the body the server sends for a url; v2 is an empty body.
ContentLength(u) == CASE u = "v1" -> 2 [] u = "c1" -> 1 [] OTHER -> 0

\* The data payloads of the book specification: missing, null, an empty JSON
\* array, or an object in either of the two historical shapes; one episode
\* list names the same episode id twice.
BookData ==
    {Absent, JNull, JList(<<>>)}
    \cup {[t |-> "dict", dramaInfo |-> di, book |-> bk, chapters |-> cs, chapterList |-> cl] :
            di \in {Absent, EmptyInfo, Info1},
            bk \in {Absent, InfoBare},
            cs \in {Absent, JList(<<>>), JList(<<Chap1>>)},
            cl \in {Absent, JList(<<Chap2>>), JList(<<Chap2, Chap5>>)}}

DetailResponsesOver(payloads) ==
    {[kind |-> "dict", success |-> su, status |-> st, data |-> d] :
        su \in {Absent, JFalse, JTrue},
        st \in {Absent, JFalse, JTrue, JInt(1)},
        d \in payloads}
    \cup {[kind |-> "fail"]}

BookDetails == DetailResponsesOver(BookData)

ProgramData ==
    {JNull,
     [t |-> "dict", dramaInfo |-> Info1, book |-> Absent,
      chapters |-> JList(<<Chap3>>), chapterList |-> Absent],
     [t |-> "dict", dramaInfo |-> Absent, book |-> Info2,
      chapters |-> Absent, chapterList |-> JList(<<Chap4>>)]}

ProgramDetails ==
    {[kind |-> "dict", success |-> su, status |-> Absent, data |-> d] :
        su \in {JFalse, JTrue}, d \in ProgramData}
    \cup {[kind |-> "fail"]}

\* json_resp.get("data") is falsy: missing, null, [] or {}.
IsEmptyDataDict(d) ==
    /\ d.t = "dict"
    /\ d.dramaInfo = Absent /\ d.book = Absent
    /\ d.chapters = Absent /\ d.chapterList = Absent

DataFalsy(d) == d.t \in {"absent", "null", "list"} \/ IsEmptyDataDict(d)

\* Lines 176-179 without the test of line 177: no success flag, no book.
RejectedOnFlagAlone(json_resp) ==
    /\ ~Truthy(json_resp.success)
    /\ json_resp.status # JTrue

\* Lines 176-179: the response is turned away.
Rejected(json_resp) ==
    /\ ~Truthy(json_resp.success)
    /\ json_resp.status # JTrue
    /\ DataFalsy(json_resp.data)

\* Line 181 onwards calls .get on json_resp.get("data", {}): a null or an
\* array has no .get and the call raises AttributeError.
ResolveRaises(json_resp) ==
    ~Rejected(json_resp) /\ json_resp.data.t \in {"null", "list"}

\* json_resp.get("data", {})
DataContent(json_resp) ==
    IF json_resp.data = Absent
    THEN [t |-> "dict", dramaInfo |-> Absent, book |-> Absent,
          chapters |-> Absent, chapterList |-> Absent]
    ELSE json_resp.data

\* Lines 184-195: dramaInfo, else book, else the record made of the argument.
BookInfo(json_resp, book_data) ==
    LET d == DataContent(json_resp)
        first == IF d.dramaInfo = Absent THEN EmptyInfo ELSE d.dramaInfo
        second == IF InfoIsEmpty(first) /\ d.book # Absent THEN d.book ELSE first
    IN IF InfoIsEmpty(second)
       THEN [bookId |-> JStr(book_data.id), id |-> Absent,
             bookName |-> JStr(book_data.name), title |-> Absent, other |-> FALSE]
       ELSE second

\* Lines 185-191: chapters, else chapterList.
Chapters(json_resp) ==
    LET d == DataContent(json_resp)
        first == IF d.chapters = Absent THEN <<>> ELSE d.chapters.v
    IN IF first = <<>> /\ d.chapterList # Absent THEN d.chapterList.v ELSE first

\* Line 197
RealBookId(info, book_id_arg) ==
    IF info.bookId # Absent THEN PyStr(info.bookId)
    ELSE IF info.id # Absent THEN PyStr(info.id) ELSE book_id_arg

\* Line 198
BookName(info) ==
    IF info.bookName # Absent THEN info.bookName.v
    ELSE IF info.title # Absent THEN info.title.v ELSE "Unknown"

\* Lines 226-245: the download tasks of one episode, video first.
ChapterTasks(folder, chap) ==
    LET c_id == PyStr(IF chap.id = Absent THEN JNull ELSE chap.id)
        vid_url == PyOr(chap.mp4, chap.url)
        cover_url == PyOr(chap.cover, chap.thumbnail)
    IN (IF Truthy(vid_url) THEN <<[url |-> vid_url.v, file |-> <<folder, c_id, "mp4">>]>>
        ELSE <<>>)
       \o (IF Truthy(cover_url) THEN <<[url |-> cover_url.v, file |-> <<folder, c_id, "jpg">>]>>
           ELSE <<>>)

RECURSIVE BuildTasks(_, _)
BuildTasks(folder, chapters) ==
    IF chapters = <<>> THEN <<>>
    ELSE ChapterTasks(folder, Head(chapters)) \o BuildTasks(folder, Tail(chapters))

\* -------------------------------------------------------------- transport
\* The defaults of get_with_retry (line 55).
DefaultRetries == 3
DefaultDelay == 1

\* What one requests.get can come to: a response, a RequestException, or an
\* exception of another class, which line 61 does not catch.
GetOutcomes == {"response", "transient", "other"}

\* Line 62 with a constant wait.
BackoffConstant(delay, i) == delay

\* Line 62: the wait after the failed attempt of loop index i.
Backoff(delay, i) == delay * (i + 1)

\* Lines 57-63 from loop index i on: outcomes[i + 1] is what the attempt of
\* index i comes to, sleeps the waits made so far.
RECURSIVE RetryLoop(_, _, _, _, _)
RetryLoop(i, retries, delay, outcomes, sleeps) ==
    IF i >= retries
    THEN [result |-> "raised", exc |-> "Max retries exceeded",
          attempts |-> i, sleeps |-> sleeps]
    ELSE CASE outcomes[i + 1] = "response" ->
                [result |-> "response", exc |-> "none",
                 attempts |-> i + 1, sleeps |-> sleeps]
           [] outcomes[i + 1] = "transient" ->
                RetryLoop(i + 1, retries, delay, outcomes,
                          Append(sleeps, Backoff(delay, i)))
           [] OTHER ->
                [result |-> "raised", exc |-> "other",
                 attempts |-> i + 1, sleeps |-> sleeps]

\* get_with_retry
get_with_retry(outcomes, retries, delay) == RetryLoop(0, retries, delay, outcomes, <<>>)

\* ------------------------------------------------------------ size probe
\* What a HEAD or the fallback GET can come to: no response at all, a
\* response with a status code, and its content-length header (missing,
\* not a number, or the length of the body).
ProbeReplies(u) ==
    {[r |-> "none"]}
    \cup {[r |-> "resp", code |-> c, cl |-> h] :
            c \in {200, 404},
            h \in {Absent, JStr("x"), JInt(ContentLength(u))}}

\* The attempts of get_head_with_retry (line 65).
HeadRetries == 3

\* get_head_with_retry: the first attempt that gets a response returns it;
\* an attempt that raises anything is slept over; after the last, None.
RECURSIVE HeadLoop(_, _)
HeadLoop(i, replies) ==
    IF i >= HeadRetries THEN [r |-> "none"]
    ELSE IF replies[i + 1].r = "resp" THEN replies[i + 1]
    ELSE HeadLoop(i + 1, replies)
get_head_with_retry(replies) == HeadLoop(0, replies)

\* int(response.headers.get('content-length', 0)): the number, 0 for a
\* missing header, ValueError for a header that is no number.
HeaderInt(h) ==
    IF h = Absent THEN [exc |-> "none", v |-> 0]
    ELSE IF h.t = "int" THEN [exc |-> "none", v |-> h.v]
    ELSE [exc |-> "ValueError", v |-> 0]

\* Line 90 catching RequestException only.
OuterCatchesRequestOnly(exc) == exc = "RequestException"

\* The bare except of line 85 and the except clause of line 90.
InnerCatches(exc) == TRUE
OuterCatches(exc) == exc \in {"RequestException", "ValueError"}

\* get_file_size with its exits told apart: the value returned or the
\* exception that leaves the function, and whether the fallback GET was made.
FileSizeOutcome(head, fallback) ==
    IF head.r = "none" \/ head.code # 200
    THEN LET raised == IF fallback.r = "none" THEN "RequestException"
                       ELSE HeaderInt(fallback.cl).exc
         IN IF raised = "none"
            THEN [exc |-> "none", v |-> HeaderInt(fallback.cl).v, fallback_used |-> TRUE]
            ELSE IF InnerCatches(raised) \/ OuterCatches(raised)
            THEN [exc |-> "none", v |-> 0, fallback_used |-> TRUE]
            ELSE [exc |-> raised, v |-> 0, fallback_used |-> TRUE]
    ELSE LET parsed == HeaderInt(head.cl)
         IN IF parsed.exc = "none" \/ OuterCatches(parsed.exc)
            THEN [exc |-> "none", v |-> parsed.v, fallback_used |-> FALSE]
            ELSE [exc |-> parsed.exc, v |-> 0, fallback_used |-> FALSE]

\* get_file_size as download_file sees it: the number returned.
get_file_size(head, fallback) == FileSizeOutcome(head, fallback).v

\* Every value get_file_size can return for a url.
ProbedSizes(u) ==
    {get_file_size(head, fallback) : head \in ProbeReplies(u), fallback \in ProbeReplies(u)}

\* Lines 102-106 without the test of line 104: an empty file counts too.
SkipsDownloadEmptyToo(fs, path, remote_size) ==
    /\ path \in DOMAIN fs
    /\ (remote_size = 0 \/ fs[path] = remote_size)

\* Lines 102-106 without "remote_size == 0 or": only an exact match skips.
SkipsDownloadExactOnly(fs, path, remote_size) ==
    /\ path \in DOMAIN fs
    /\ fs[path] > 0
    /\ fs[path] = remote_size

\* Lines 102-106: the file is there, is not empty, and the probe either
\* matches it or came back 0.
SkipsDownload(fs, path, remote_size) ==
    /\ path \in DOMAIN fs
    /\ fs[path] > 0
    /\ (remote_size = 0 \/ fs[path] = remote_size)

\* ================================================================ state
VARIABLES
    scope,          \* which server repertoire the specification uses
    pc,             \* where the main thread is
    ops,            \* menu choices made so far
    mode,           \* the workflow in progress
    history,        \* rows of download_history.xlsx
    files,          \* path -> size, for the files on disk
    folders,        \* directories on disk
    all_books, seen_ids, page, items, idx, new_count,   \* fetch_all_available_books
    requests,       \* page numbers asked of the listing endpoint, in order
    served,         \* the item lists those requests returned
    stop,           \* why the scan loop was left
    queue, qi,      \* the work queue and the loop position in it
    lookups,        \* per filtered entry: whether the ledger read succeeded
    book_data, json_resp, real_book_id, book_name, total_chapters,
    tasks, tstate, success_count, pbar, ret,            \* process_book_parallel
    target_index,   \* download_specific_chapter
    calls,          \* the ledger specification: its last two ledger calls
    remote,         \* the sync specification: the catalog and details served
    runs,           \* the sync specification: the last two incremental syncs
    net,            \* the transport specification: its last call and the outcome
    scraper         \* DramaboxScraper: one drama's folder, history and master row

scanVars == <<all_books, seen_ids, page, items, idx, new_count, requests, served, stop>>
queueVars == <<queue, qi, lookups>>
bookVars == <<book_data, json_resp, real_book_id, book_name, total_chapters>>
batchVars == <<tasks, tstate, success_count, pbar>>
diskVars == <<files, folders>>
vars == <<scope, pc, ops, mode, history, diskVars, scanVars, queueVars, bookVars,
          batchVars, ret, target_index, calls, remote, runs, net, scraper>>

NoFiles == [p \in {} |-> 0]
NoCall == [call |-> "none"]
NoResp == [kind |-> "none"]
NoBook == [id |-> "", name |-> ""]
\* What the user may type at the "ID:" prompts.
ManualIds == IF scope = "book" THEN {"1"} ELSE {"1", "2"}

\* A remote service that answers every request the same way: the pages of
\* its catalog, an empty page after them, and one detail response per id.
NoRemote == [pages |-> <<>>, detail |-> <<>>]
RemotePage(p) ==
    [kind |-> "dict", status |-> "true",
     data |-> JList(IF p <= Len(remote.pages) THEN remote.pages[p] ELSE <<>>)]
RemoteDetail(id) ==
    IF id = "1" THEN remote.detail[1] ELSE remote.detail[2]

Listing ==
    IF scope = "scan" THEN ScanListing
    ELSE IF scope \in {"sync", "queue"} THEN {RemotePage(page)}
    ELSE ProgramListing
Details ==
    IF scope = "book" THEN BookDetails
    ELSE IF scope \in {"sync", "queue"} THEN {RemoteDetail(book_data.id)}
    ELSE ProgramDetails

WriteFile(fs, path, size) ==
    [p \in DOMAIN fs \cup {path} |-> IF p = path THEN size ELSE fs[p]]

\* The locals of fetch_all_available_books other than its result.
ScanLocalsReset ==
    /\ seen_ids' = {} /\ page' = 1
    /\ items' = <<>> /\ idx' = 0 /\ new_count' = 0
    /\ requests' = <<>> /\ served' = <<>> /\ stop' = "none"

ScanReset == all_books' = <<>> /\ ScanLocalsReset

QueueReset == queue' = <<>> /\ qi' = 0 /\ lookups' = <<>>

BookReset ==
    /\ book_data' = NoBook /\ json_resp' = NoResp /\ real_book_id' = ""
    /\ book_name' = "" /\ total_chapters' = 0

BatchReset == tasks' = <<>> /\ tstate' = <<>> /\ success_count' = 0 /\ pbar' = 0

\* A DramaboxScraper after __init__, with one drama not yet downloaded: no
\* episode file in its folder, an empty history, no row in the master list.
NoScraper ==
    [at |-> "idle", done |-> 0, only_new |-> FALSE, episode_files |-> {},
     downloaded_episode_ids |-> {}, downloaded_count |-> 0, ep |-> 0, master |-> -1]

\* Nothing on disk, no ledger file, no workflow in progress.
InitFrame ==
    /\ history = <<>>
    /\ files = NoFiles /\ folders = {}
    /\ all_books = <<>> /\ seen_ids = {} /\ page = 1
    /\ items = <<>> /\ idx = 0 /\ new_count = 0
    /\ requests = <<>> /\ served = <<>> /\ stop = "none"
    /\ queue = <<>> /\ qi = 0 /\ lookups = <<>>
    /\ book_data = NoBook /\ json_resp = NoResp /\ real_book_id = ""
    /\ book_name = "" /\ total_chapters = 0
    /\ tasks = <<>> /\ tstate = <<>> /\ success_count = 0 /\ pbar = 0
    /\ ret = "none"
    /\ target_index = -1
    /\ calls = <<>>
    /\ runs = <<>>
    /\ scraper = NoScraper

InitLocals == ops = 0 /\ InitFrame

InitCommon == InitLocals /\ remote = NoRemote /\ net = NoCall

\* main() at its menu prompt, nothing on disk, no ledger file.
Init == scope = "program" /\ pc = "menu" /\ mode = "none" /\ InitCommon

\* ===================================================== the catalog scan
\* Line 304 without the test: every item counts as new.
IsNewAlways(bid, seen) == TRUE

\* Line 304: the id has not been seen on this or an earlier page.
IsNew(bid, seen) == bid \notin seen

\* Lines 326-328 left out: the scan goes on after a page without a new id.
LoopGuardNever(fresh, n) == FALSE

\* Line 326: the page held items and none of them was new.
LoopGuard(fresh, n) == fresh = 0 /\ n > 0

\* Line 330 left out: the same page is asked for again.
NextPageSame(p) == p

\* Line 330
NextPage(p) == p + 1

\* fetch_all_available_books, lines 274-276.
ScanStart(m) ==
    /\ mode' = m
    /\ ScanReset
    /\ pc' = "scan_fetch"

\* Lines 332-334 going round the loop again instead of leaving it: the page
\* that failed is asked for once more.
ScanFetchRetrying ==
    /\ pc = "scan_fetch"
    /\ \E resp \in Listing :
         /\ requests' = Append(requests, page)
         /\ IF resp.kind = "fail"
            THEN /\ stop' = stop /\ pc' = "scan_fetch"
                 /\ UNCHANGED <<items, idx, served>>
            ELSE /\ served' = Append(served, ItemsOf(resp))
                 /\ IF ItemsOf(resp) = <<>>
                    THEN /\ stop' = "empty" /\ pc' = "scan_done"
                         /\ UNCHANGED <<items, idx>>
                    ELSE /\ items' = ItemsOf(resp) /\ idx' = 1
                         /\ pc' = "scan_item" /\ stop' = stop
    /\ new_count' = 0
    /\ UNCHANGED <<scraper, net, remote, runs, calls, scope, ops, mode, history, diskVars, all_books, seen_ids, page,
                   queueVars, bookVars, batchVars, ret, target_index>>

\* Lines 283-298: one request for the current page.  A failure (retries
\* exhausted, body not JSON) lands in the except branch and leaves the loop.
ScanFetch ==
    /\ pc = "scan_fetch"
    /\ \E resp \in Listing :
         /\ requests' = Append(requests, page)
         /\ IF resp.kind = "fail"
            THEN /\ stop' = "error" /\ pc' = "scan_done"
                 /\ UNCHANGED <<items, idx, served>>
            ELSE /\ served' = Append(served, ItemsOf(resp))
                 /\ IF ItemsOf(resp) = <<>>
                    THEN /\ stop' = "empty" /\ pc' = "scan_done"
                         /\ UNCHANGED <<items, idx>>
                    ELSE /\ items' = ItemsOf(resp) /\ idx' = 1
                         /\ pc' = "scan_item" /\ stop' = stop
    /\ new_count' = 0
    /\ UNCHANGED <<scraper, net, remote, runs, calls, scope, ops, mode, history, diskVars, all_books, seen_ids, page,
                   queueVars, bookVars, batchVars, ret, target_index>>

\* Lines 301-321: one turn of the loop over the page's items.  An item that
\* is no dict raises at item.get and the except branch leaves the scan.
ScanItem ==
    /\ pc = "scan_item"
    /\ LET item == items[idx]
       IN IF item.t # "dict"
          THEN /\ stop' = "error" /\ pc' = "scan_done"
               /\ UNCHANGED <<all_books, seen_ids, new_count, idx>>
          ELSE /\ IF IsNew(ItemId(item), seen_ids)
                  THEN /\ seen_ids' = seen_ids \cup {ItemId(item)}
                       /\ all_books' = Append(all_books, BookObj(item))
                       /\ new_count' = new_count + 1
                  ELSE UNCHANGED <<all_books, seen_ids, new_count>>
               /\ idx' = idx + 1
               /\ pc' = IF idx = Len(items) THEN "scan_page_end" ELSE "scan_item"
               /\ stop' = stop
    /\ UNCHANGED <<scraper, net, remote, runs, calls, scope, ops, mode, history, diskVars, page, items, requests, served,
                   queueVars, bookVars, batchVars, ret, target_index>>

\* Lines 326-330: the loop guard, else on to the next page.
ScanPageEnd ==
    /\ pc = "scan_page_end"
    /\ IF LoopGuard(new_count, Len(items))
       THEN /\ stop' = "guard" /\ pc' = "scan_done" /\ page' = page
       ELSE /\ page' = NextPage(page) /\ pc' = "scan_fetch" /\ stop' = stop
    /\ UNCHANGED <<scraper, net, remote, runs, calls, scope, ops, mode, history, diskVars, all_books, seen_ids, items, idx,
                   new_count, requests, served, queueVars, bookVars, batchVars, ret,
                   target_index>>

\* =========================================================== workflows
\* The sync specification keeps, for its last two incremental syncs, how many
\* entries were queued, for how many the fetch returned True with the item's
\* row in the ledger (recorded), for how many that row is under the entry's
\* own id with at least the entry's episode count (matched), whether every
\* ledger read succeeded, and whether the sync ran to its end.
NewRun == [queued |-> 0, recorded |-> 0, matched |-> 0, reads |-> TRUE, ended |-> FALSE]
Tracking == scope = "sync"
ThisRun == runs[Len(runs)]
RunStarted ==
    IF ~Tracking THEN runs
    ELSE IF runs = <<>> THEN <<NewRun>> ELSE <<ThisRun, NewRun>>
RunWith(r) == IF ~Tracking THEN runs ELSE [runs EXCEPT ![Len(runs)] = r]

BackToMenu ==
    /\ pc' = "menu" /\ mode' = "none"
    /\ ScanReset /\ QueueReset /\ BookReset /\ BatchReset
    /\ ret' = "none" /\ target_index' = -1

\* Line 341-342 and 493-494: the scan's result reaches the caller.
ScanReturn ==
    /\ pc = "scan_done"
    /\ mode \in {"auto", "force"}
    /\ IF all_books = <<>>
       THEN BackToMenu
       ELSE /\ pc' = IF mode = "auto" THEN "auto_filter" ELSE "confirm"
            /\ queue' = IF mode = "auto" THEN <<>> ELSE all_books
            /\ qi' = 1 /\ lookups' = <<>>
            /\ all_books' = IF mode = "auto" THEN all_books ELSE <<>>
            /\ ScanLocalsReset
            /\ UNCHANGED <<mode, bookVars, batchVars, ret, target_index>>
    /\ UNCHANGED <<scraper, net, remote, runs, calls, scope, ops, history, diskVars>>

\* Lines 347-351: the history filter, one entry per step; every
\* check_is_downloaded reads the file again.
AutoFilter ==
    /\ pc = "auto_filter"
    /\ \E readOk \in BOOLEAN :
         LET b == all_books[qi]
             hist == check_is_downloaded(history, readOk, b.id)
         IN /\ queue' = IF NeedsDownload(b, hist) THEN Append(queue, b) ELSE queue
            /\ lookups' = Append(lookups, readOk)
            /\ runs' = RunWith([ThisRun EXCEPT !.reads = @ /\ readOk])
    /\ qi' = qi + 1
    /\ pc' = IF qi = Len(all_books) THEN "auto_filtered" ELSE "auto_filter"
    /\ UNCHANGED <<scraper, net, remote, calls, scope, ops, mode, history, diskVars, scanVars, bookVars, batchVars,
                   ret, target_index>>

\* Lines 353-402: nothing to do, or the size estimate.  The estimate only
\* feeds a printed total; a Ctrl+C during it is caught and the flow goes on.
AutoFiltered ==
    /\ pc = "auto_filtered"
    /\ IF queue = <<>>
       THEN BackToMenu
       ELSE /\ pc' = "confirm" /\ qi' = 1
            /\ all_books' = <<>> /\ lookups' = <<>>
            /\ UNCHANGED <<mode, seen_ids, page, items, idx, new_count, requests, served,
                           stop, queue, bookVars, batchVars, ret, target_index>>
    /\ runs' = RunWith([ThisRun EXCEPT !.queued = Len(queue), !.ended = (queue = <<>>)])
    /\ UNCHANGED <<scraper, net, remote, calls, scope, ops, history, diskVars>>

\* Lines 404 and 500: the y/n prompt.
Confirm ==
    /\ pc = "confirm"
    /\ \E answer \in {"y", "n"} :
         IF answer # "y"
         THEN BackToMenu
         ELSE /\ pc' = "loop"
              /\ UNCHANGED <<mode, scanVars, queueVars, bookVars, batchVars, ret,
                             target_index>>
    /\ UNCHANGED <<scraper, net, remote, runs, calls, scope, ops, history, diskVars>>

\* Lines 408-410 and 503-505: the next queue entry, or the end of the loop.
LoopNext ==
    /\ pc = "loop"
    /\ IF qi > Len(queue)
       THEN /\ BackToMenu
            /\ runs' = RunWith([ThisRun EXCEPT !.ended = TRUE])
       ELSE /\ book_data' = [id |-> queue[qi].id, name |-> queue[qi].name]
            /\ pc' = "pb_fetch"
            /\ runs' = runs
            /\ UNCHANGED <<mode, scanVars, queueVars, json_resp, real_book_id, book_name,
                           total_chapters, batchVars, ret, target_index>>
    /\ UNCHANGED <<scraper, net, remote, calls, scope, ops, history, diskVars>>

\* main(), choice 2.
MenuAuto ==
    /\ pc = "menu" /\ ops < MaxOps
    /\ ops' = ops + 1
    /\ ScanStart("auto")
    /\ runs' = RunStarted
    /\ UNCHANGED <<scraper, net, remote, calls, scope, history, diskVars, queueVars, bookVars, batchVars, ret,
                   target_index>>

\* main(), choice 5.
MenuForce ==
    /\ pc = "menu" /\ ops < MaxOps
    /\ ops' = ops + 1
    /\ ScanStart("force")
    /\ UNCHANGED <<scraper, net, remote, runs, calls, scope, history, diskVars, queueVars, bookVars, batchVars, ret,
                   target_index>>

\* main(), choice 1.
MenuManual ==
    /\ pc = "menu" /\ ops < MaxOps
    /\ ops' = ops + 1
    /\ \E bid \in ManualIds : book_data' = [id |-> bid, name |-> "Manual"]
    /\ mode' = "manual"
    /\ pc' = "pb_fetch"
    /\ UNCHANGED <<scraper, net, remote, runs, calls, scope, history, diskVars, scanVars, queueVars, json_resp, real_book_id,
                   book_name, total_chapters, batchVars, ret, target_index>>

\* ============================================== process_book_parallel
\* Lines 169-174: the detail request.  An exception (retries exhausted, body
\* not JSON) returns False.
PBFetch ==
    /\ pc = "pb_fetch"
    /\ \E resp \in Details :
         /\ json_resp' = resp
         /\ IF resp.kind = "fail"
            THEN pc' = "pb_ret" /\ ret' = "False"
            ELSE pc' = "pb_check" /\ ret' = ret
    /\ UNCHANGED <<scraper, net, remote, runs, calls, scope, ops, mode, history, diskVars, scanVars, queueVars, book_data,
                   real_book_id, book_name, total_chapters, batchVars, target_index>>

\* Lines 176-199: the acceptance rule and the resolution of the payload.  An
\* AttributeError on a null or array payload is caught nowhere and ends the
\* program.
PBCheck ==
    /\ pc = "pb_check"
    /\ IF Rejected(json_resp)
       THEN /\ pc' = "pb_ret" /\ ret' = "False"
            /\ UNCHANGED <<real_book_id, book_name, total_chapters>>
       ELSE IF ResolveRaises(json_resp)
       THEN /\ pc' = "crashed" /\ ret' = "raised"
            /\ UNCHANGED <<real_book_id, book_name, total_chapters>>
       ELSE /\ real_book_id' = RealBookId(BookInfo(json_resp, book_data), book_data.id)
            /\ book_name' = BookName(BookInfo(json_resp, book_data))
            /\ total_chapters' = Len(Chapters(json_resp))
            /\ pc' = "pb_setup" /\ ret' = ret
    /\ UNCHANGED <<scraper, net, remote, runs, calls, scope, ops, mode, history, diskVars, scanVars, queueVars, book_data,
                   json_resp, batchVars, target_index>>

BookFolder(id) == <<"book", id>>
ManualFolder(id) == <<"manual", id>>

NewTask == [st |-> "submitted", ok |-> FALSE, wrote |-> FALSE, taken |-> FALSE,
            remote_size |-> -1, local_size |-> -1]

\* Lines 201-255: the folder, the description sheet (a failure to write it is
\* only printed), the task list, and the submission of every task to the pool.
PBSetup ==
    /\ pc = "pb_setup"
    /\ folders' = folders \cup {BookFolder(real_book_id)}
    /\ \E descOk \in BOOLEAN :
         files' = IF descOk
                  THEN WriteFile(files, <<BookFolder(real_book_id), "deskripsi", "xlsx">>, 1)
                  ELSE files
    /\ tasks' = BuildTasks(BookFolder(real_book_id), Chapters(json_resp))
    /\ tstate' = [i \in 1..Len(tasks') |-> NewTask]
    /\ success_count' = 0 /\ pbar' = 0
    /\ pc' = "pb_batch"
    /\ json_resp' = NoResp
    /\ UNCHANGED <<scraper, net, remote, runs, calls, scope, ops, mode, history, scanVars, queueVars, book_data, real_book_id,
                   book_name, total_chapters, ret, target_index>>

Running == {i \in 1..Len(tasks) : tstate[i].st \in {"get", "writing"}}

\* A pool that starts every submitted task at once.
MayStartUnbounded(i) ==
    IF mode = "repair"
    THEN \A j \in 1..(i - 1) : tstate[j].st = "done"
    ELSE TRUE

\* download_specific_chapter calls download_file for the video and then for
\* the cover; the pool runs its tasks in any order, MAX_WORKERS at a time.
MayStart(i) ==
    IF mode = "repair"
    THEN \A j \in 1..(i - 1) : tstate[j].st = "done"
    ELSE Cardinality(Running) < MAX_WORKERS

\* download_file, lines 98-106: the size probe and the resume check.
TaskProbe(i) ==
    /\ pc \in {"pb_batch", "rp_download"}
    /\ tstate[i].st = "submitted"
    /\ MayStart(i)
    /\ \E size \in ProbedSizes(tasks[i].url) :
         LET path == tasks[i].file
             local == IF path \in DOMAIN files THEN files[path] ELSE -1
         IN tstate' = [tstate EXCEPT
                ![i] = IF SkipsDownload(files, path, size)
                       THEN [@ EXCEPT !.st = "done", !.ok = TRUE,
                                      !.remote_size = size, !.local_size = local]
                       ELSE [@ EXCEPT !.st = "get",
                                      !.remote_size = size, !.local_size = local]]
    /\ UNCHANGED <<scraper, net, remote, runs, calls, scope, pc, ops, mode, history, diskVars, scanVars, queueVars, bookVars,
                   tasks, success_count, pbar, ret, target_index>>

\* download_file, lines 109-113: the streamed GET.  A request that fails or
\* answers with an error status returns False before the file is touched;
\* otherwise open(path, 'wb') leaves an empty file.
TaskGet(i) ==
    /\ pc \in {"pb_batch", "rp_download"}
    /\ tstate[i].st = "get"
    /\ \E responded \in BOOLEAN :
         IF responded
         THEN /\ files' = WriteFile(files, tasks[i].file, 0)
              /\ tstate' = [tstate EXCEPT ![i].st = "writing", ![i].wrote = TRUE]
         ELSE /\ files' = files
              /\ tstate' = [tstate EXCEPT ![i].st = "done", ![i].ok = FALSE]
    /\ UNCHANGED <<scraper, net, remote, runs, calls, scope, pc, ops, mode, history, folders, scanVars, queueVars, bookVars,
                   tasks, success_count, pbar, ret, target_index>>

\* Lines 117-119 with the except branch returning True as well.
StreamStatusAlwaysTrue(written, length) == TRUE

\* The status download_file returns after the write loop: True at line 117
\* when the whole body went through, False at line 119 when the stream or a
\* write raised on the way.
StreamStatus(written, length) == written = length

\* download_file, lines 114-119: the body is written through, or the stream
\* breaks and leaves the part already written.
TaskWrite(i) ==
    /\ pc \in {"pb_batch", "rp_download"}
    /\ tstate[i].st = "writing"
    /\ \E written \in 0..ContentLength(tasks[i].url) :
         /\ files' = WriteFile(files, tasks[i].file, written)
         /\ tstate' = [tstate EXCEPT ![i].st = "done",
                                     ![i].ok = StreamStatus(written,
                                                            ContentLength(tasks[i].url))]
    /\ UNCHANGED <<scraper, net, remote, runs, calls, scope, pc, ops, mode, history, folders, scanVars, queueVars, bookVars,
                   tasks, success_count, pbar, ret, target_index>>

\* Lines 260-261 without the test of status: every outcome is counted.
CountedAlways(status) == 1

\* The count line 261 adds for an outcome.
Counted(status) == IF status THEN 1 ELSE 0

\* Lines 258-262: as_completed hands over one finished future.
Collect(i) ==
    /\ pc = "pb_batch"
    /\ tstate[i].st = "done" /\ ~tstate[i].taken
    /\ success_count' = success_count + Counted(tstate[i].ok)
    /\ pbar' = pbar + 1
    /\ tstate' = [tstate EXCEPT ![i].taken = TRUE]
    /\ UNCHANGED <<scraper, net, remote, runs, calls, scope, pc, ops, mode, history, diskVars, scanVars, queueVars, bookVars,
                   tasks, ret, target_index>>

\* Line 265 without the comparison: every batch is recorded as Completed.
StatusStrCompletedAlways(successes, total_tasks) == "Completed"

\* Line 265
StatusStr(successes, total_tasks) ==
    IF successes >= total_tasks THEN "Completed" ELSE "Partial"

\* Lines 257-262 leaving the loop after the first future handed over.
BatchJoinedAfterFirst == tasks = <<>> \/ \E i \in 1..Len(tasks) : tstate[i].taken

\* Lines 251-262: as_completed has handed over every future, and the pool's
\* with-block has let go.
BatchJoined == \A i \in 1..Len(tasks) : tstate[i].taken

\* Lines 264-269, once the as_completed loop and the pool have ended.
PBSave ==
    /\ pc = "pb_batch"
    /\ BatchJoined
    /\ \E readOk \in BOOLEAN, writeOk \in BOOLEAN :
         /\ history' = save_to_history(history, readOk, writeOk, real_book_id, book_name,
                                       total_chapters, StatusStr(success_count, Len(tasks)))
         /\ runs' = RunWith([ThisRun EXCEPT !.reads = @ /\ readOk])
    /\ ret' = "True"
    /\ pc' = "pb_ret"
    /\ UNCHANGED <<scraper, net, remote, calls, scope, ops, mode, diskVars, scanVars, queueVars, bookVars, batchVars,
                   target_index>>

\* The fetch returned True and the ledger holds the row it made.
Recorded ==
    /\ ret = "True"
    /\ \E k \in 1..Len(history) :
         /\ history[k].BookID = real_book_id
         /\ history[k].Title = book_name
         /\ history[k].TotalChapters = total_chapters
\* That row is under the queue entry's own id and counts at least as many
\* episodes as the entry.
Matched == real_book_id = book_data.id /\ total_chapters >= queue[qi].chapterCount

\* The call returns: to the menu (choice 1) or to the queue loop.
PBReturn ==
    /\ pc = "pb_ret"
    /\ IF mode = "manual"
       THEN BackToMenu /\ runs' = runs
       ELSE /\ qi' = qi + 1 /\ pc' = "loop"
            /\ BookReset /\ BatchReset /\ ret' = "none"
            /\ runs' = RunWith([ThisRun EXCEPT
                           !.recorded = @ + (IF Recorded THEN 1 ELSE 0),
                           !.matched = @ + (IF Recorded /\ Matched THEN 1 ELSE 0)])
            /\ UNCHANGED <<mode, scanVars, queue, lookups, target_index>>
    /\ UNCHANGED <<scraper, net, remote, calls, scope, ops, history, diskVars>>

\* ============================================ download_specific_chapter
\* Lines 449-454 without the test of the index: the first episode is taken.
FindChapterFirst(chapters, wanted) ==
    IF chapters = <<>> THEN <<>> ELSE <<Head(chapters)>>

\* The chapter whose 'index' is the one asked for, as a sequence of at most
\* one element (lines 449-454).
RECURSIVE FindChapter(_, _)
FindChapter(chapters, wanted) ==
    IF chapters = <<>> THEN <<>>
    ELSE IF (IF Head(chapters).index = Absent THEN -1 ELSE Head(chapters).index.v) = wanted
         THEN <<Head(chapters)>>
         ELSE FindChapter(Tail(chapters), wanted)

\* Lines 461-484: the video from 'mp4' and the cover from 'cover' only.
RepairTasks(folder, book_id, chap) ==
    LET c_id == PyStr(IF chap.id = Absent THEN JNull ELSE chap.id)
    IN (IF Truthy(chap.mp4) THEN <<[url |-> chap.mp4.v, file |-> <<folder, c_id, "mp4">>]>>
        ELSE <<>>)
       \o (IF Truthy(chap.cover) THEN <<[url |-> chap.cover.v, file |-> <<folder, c_id, "jpg">>]>>
           ELSE <<>>)

\* main(), choice 4, lines 417-435.
MenuRepair ==
    /\ pc = "menu" /\ ops < MaxOps
    /\ ops' = ops + 1
    /\ mode' = "repair"
    /\ \E bid \in ManualIds, index \in 0..2, resp \in Details :
         /\ book_data' = [id |-> bid, name |-> ""]
         /\ target_index' = index
         /\ json_resp' = resp
         /\ IF resp.kind = "fail"
            THEN pc' = "rp_ret" /\ ret' = "api"
            ELSE pc' = "rp_check" /\ ret' = ret
    /\ UNCHANGED <<scraper, net, remote, runs, calls, scope, history, diskVars, scanVars, queueVars, real_book_id, book_name,
                   total_chapters, batchVars>>

\* Lines 437-472: success flag, episode list, the search for the index, and
\* the folder.
RepairCheck ==
    /\ pc = "rp_check"
    /\ IF ~Truthy(json_resp.success)
       THEN /\ pc' = "rp_ret" /\ ret' = "not success"
            /\ UNCHANGED <<diskVars, batchVars>>
       ELSE IF json_resp.data.t \in {"null", "list"}
       THEN /\ pc' = "crashed" /\ ret' = "raised"
            /\ UNCHANGED <<diskVars, batchVars>>
       ELSE LET d == DataContent(json_resp)
                chapters == IF d.chapterList = Absent THEN <<>> ELSE d.chapterList.v
                found == FindChapter(chapters, target_index)
            IN IF chapters = <<>>
               THEN /\ pc' = "rp_ret" /\ ret' = "no chapters"
                    /\ UNCHANGED <<diskVars, batchVars>>
               ELSE IF found = <<>>
               THEN /\ pc' = "rp_ret" /\ ret' = "not found"
                    /\ UNCHANGED <<diskVars, batchVars>>
               ELSE /\ folders' = folders \cup {ManualFolder(book_data.id)}
                    /\ tasks' = RepairTasks(ManualFolder(book_data.id), book_data.id, found[1])
                    /\ tstate' = [i \in 1..Len(tasks') |-> NewTask]
                    /\ pc' = "rp_download" /\ ret' = ret
                    /\ UNCHANGED <<files, success_count, pbar>>
    /\ UNCHANGED <<scraper, net, remote, runs, calls, scope, ops, mode, history, scanVars, queueVars, bookVars, target_index>>

\* Line 486, after both download_file calls.
RepairDone ==
    /\ pc = "rp_download"
    /\ \A i \in 1..Len(tasks) : tstate[i].st = "done"
    /\ pc' = "rp_ret" /\ ret' = "done"
    /\ UNCHANGED <<scraper, net, remote, runs, calls, scope, ops, mode, history, diskVars, scanVars, queueVars, bookVars,
                   batchVars, target_index>>

\* A repair that records its book in the ledger when it returns.
RepairReturnSaving ==
    /\ pc = "rp_ret"
    /\ BackToMenu
    /\ history' = SavedFrame(history, book_data.id, "", 0, "Partial")
    /\ UNCHANGED <<scraper, net, remote, runs, calls, scope, ops, diskVars>>

\* Every return of download_specific_chapter: back at the menu.
RepairReturn ==
    /\ pc = "rp_ret"
    /\ BackToMenu
    /\ UNCHANGED <<scraper, net, remote, runs, calls, scope, ops, history, diskVars>>

\* main(), choice 6.
MenuExit ==
    /\ pc = "menu"
    /\ pc' = "exit"
    /\ UNCHANGED <<scraper, net, remote, runs, calls, scope, ops, mode, history, diskVars, scanVars, queueVars, bookVars,
                   batchVars, ret, target_index>>

Worker == \E i \in 1..Len(tasks) : TaskProbe(i) \/ TaskGet(i) \/ TaskWrite(i)
Collector == \E i \in 1..Len(tasks) : Collect(i)

Next ==
    \/ MenuManual \/ MenuAuto \/ MenuForce \/ MenuRepair \/ MenuExit
    \/ ScanFetch \/ ScanItem \/ ScanPageEnd \/ ScanReturn
    \/ AutoFilter \/ AutoFiltered \/ Confirm \/ LoopNext
    \/ PBFetch \/ PBCheck \/ PBSetup \/ Worker \/ Collector \/ PBSave \/ PBReturn
    \/ RepairCheck \/ RepairDone \/ RepairReturn

Spec == Init /\ [][Next]_vars

\* Full-book fetches on their own: choice 1 of the menu, over and over,
\* against a server that may answer with any detail response of BookDetails.
InitBook == scope = "book" /\ pc = "menu" /\ mode = "none" /\ InitCommon
NextBook ==
    \/ MenuManual
    \/ PBFetch \/ PBCheck \/ PBSetup \/ Worker \/ Collector \/ PBSave \/ PBReturn
SpecBook == InitBook /\ [][NextBook]_vars

\* The ledger on its own: save_to_history and check_is_downloaded called in
\* any order with any arguments, each read and each write free to fail.
LedgerIds == {"1", "2"}
LedgerRows ==
    {[title |-> "N1", n |-> 1, status |-> "Partial"],
     [title |-> "N2", n |-> 2, status |-> "Completed"],
     [title |-> "N1", n |-> 2, status |-> "Partial"]}

LastTwo(log, c) == IF Len(log) < 2 THEN Append(log, c) ELSE <<log[2], c>>

LedgerSave ==
    /\ pc = "ledger"
    /\ \E id \in LedgerIds, row \in LedgerRows, readOk \in BOOLEAN, writeOk \in BOOLEAN :
         /\ history' = save_to_history(history, readOk, writeOk, id, row.title, row.n,
                                       row.status)
         /\ calls' = LastTwo(calls, [op |-> "save", id |-> id, title |-> row.title,
                                     n |-> row.n, status |-> row.status,
                                     readOk |-> readOk, writeOk |-> writeOk,
                                     result |-> NoRecord])
    /\ UNCHANGED <<scraper, net, remote, runs, scope, pc, ops, mode, diskVars, scanVars, queueVars, bookVars,
                   batchVars, ret, target_index>>

LedgerLookup ==
    /\ pc = "ledger"
    /\ \E id \in LedgerIds, readOk \in BOOLEAN :
         calls' = LastTwo(calls, [op |-> "lookup", id |-> id, title |-> "", n |-> 0,
                                  status |-> "", readOk |-> readOk, writeOk |-> FALSE,
                                  result |-> check_is_downloaded(history, readOk, id)])
    /\ UNCHANGED <<scraper, net, remote, runs, scope, pc, ops, mode, history, diskVars, scanVars, queueVars, bookVars,
                   batchVars, ret, target_index>>

InitLedger == scope = "ledger" /\ pc = "ledger" /\ mode = "none" /\ InitCommon
NextLedger == LedgerSave \/ LedgerLookup
SpecLedger == InitLedger /\ [][NextLedger]_vars

\* The scanner on its own: one call of fetch_all_available_books against a
\* server that may answer each request with any page.
InitScan == scope = "scan" /\ pc = "scan_fetch" /\ mode = "scan" /\ InitCommon
NextScan == ScanFetch \/ ScanItem \/ ScanPageEnd
SpecScan == InitScan /\ [][NextScan]_vars
\* The scan keeps running: the loop of line 280 takes its next step as long as
\* it has one.
SpecScanFair == SpecScan /\ WF_vars(NextScan)

\* The transport on its own: get_with_retry called with any retry count up
\* to the default, a delay, and any run of outcomes of its attempts.
Delays == {DefaultDelay, DefaultDelay + 1}
NetGetWithRetry ==
    /\ pc = "net"
    /\ \E retries \in 0..DefaultRetries, delay \in Delays,
          outcomes \in [1..DefaultRetries -> GetOutcomes] :
         net' = [call |-> "get_with_retry", retries |-> retries, delay |-> delay,
                 outcomes |-> outcomes,
                 out |-> get_with_retry(outcomes, retries, delay)]
    /\ UNCHANGED <<scraper, remote, runs, calls, scope, pc, ops, mode, history, diskVars, scanVars,
                   queueVars, bookVars, batchVars, ret, target_index>>

\* get_file_size called with any run of outcomes of the HEAD attempts and any
\* outcome of the fallback GET.
NetGetFileSize ==
    /\ pc = "net"
    /\ \E replies \in [1..HeadRetries -> ProbeReplies("v1")],
          fallback \in ProbeReplies("v1") :
         net' = [call |-> "get_file_size", heads |-> replies, fallback |-> fallback,
                 out |-> FileSizeOutcome(get_head_with_retry(replies), fallback)]
    /\ UNCHANGED <<scraper, remote, runs, calls, scope, pc, ops, mode, history, diskVars, scanVars,
                   queueVars, bookVars, batchVars, ret, target_index>>

InitNet == scope = "net" /\ pc = "net" /\ mode = "none" /\ InitCommon
NextNet == NetGetWithRetry \/ NetGetFileSize
SpecNet == InitNet /\ [][NextNet]_vars

\* Incremental syncs, one after another, against a remote service that does
\* not change: its catalog is one page of entries, and every id has one
\* detail response.  The ledger reads and writes, the downloads and the
\* answer at the prompt stay free.
SyncItems ==
    ProgramItems
    \cup {[t |-> "dict", id |-> JStr("1"), bookId |-> Absent, title |-> "T1",
           episode |-> JStr(<<"1", " ", "E">>)]}
SyncDetails ==
    {[kind |-> "dict", success |-> JTrue, status |-> Absent, data |-> d] :
        d \in ProgramData \ {JNull}}
    \cup {[kind |-> "dict", success |-> JFalse, status |-> Absent, data |-> JNull]}
Remotes ==
    {[pages |-> <<p>>, detail |-> <<d1, d2>>] :
        p \in SeqsUpTo(SyncItems, 2) \ {<<>>}, d1 \in SyncDetails, d2 \in SyncDetails}

InitSync ==
    /\ scope = "sync" /\ pc = "menu" /\ mode = "none"
    /\ InitLocals /\ remote \in Remotes /\ net = NoCall
NextSync ==
    \/ MenuAuto
    \/ ScanFetch \/ ScanItem \/ ScanPageEnd \/ ScanReturn
    \/ AutoFilter \/ AutoFiltered \/ Confirm \/ LoopNext
    \/ PBFetch \/ PBCheck \/ PBSetup \/ Worker \/ Collector \/ PBSave \/ PBReturn
SpecSync == InitSync /\ [][NextSync]_vars

\* One incremental sync of a two-entry catalog whose first book has three
\* episodes with a video and a cover each, so that its batch holds more
\* tasks than the pool has workers.  The earlier menu choices left nothing
\* behind.
WideChapters ==
    [n \in 1..3 |-> [id |-> JStr(DigitChars[n + 1]), index |-> JInt(n - 1),
                     mp4 |-> JStr("v2"), url |-> Absent,
                     cover |-> JStr("c2"), thumbnail |-> Absent]]
QueueRemotes ==
    {[pages |-> <<<<[t |-> "dict", id |-> JStr("1"), bookId |-> Absent, title |-> "T1",
                     episode |-> JStr(<<"3", " ", "E">>)],
                    [t |-> "dict", id |-> JStr("2"), bookId |-> Absent, title |-> "T2",
                     episode |-> JStr(<<"1", " ", "E">>)]>>>>,
      detail |-> <<d1,
                   [kind |-> "dict", success |-> JTrue, status |-> Absent,
                    data |-> [t |-> "dict", dramaInfo |-> Absent, book |-> Info2,
                              chapters |-> Absent, chapterList |-> JList(<<Chap4>>)]]>>] :
        d1 \in {[kind |-> "dict", success |-> JTrue, status |-> Absent,
                 data |-> [t |-> "dict", dramaInfo |-> Absent, book |-> Absent,
                           chapters |-> JList(WideChapters), chapterList |-> Absent]],
                [kind |-> "dict", success |-> JFalse, status |-> Absent, data |-> JNull]}}

InitQueue ==
    /\ scope = "queue" /\ pc = "menu" /\ mode = "none"
    /\ ops = MaxOps - 1 /\ InitFrame /\ remote \in QueueRemotes /\ net = NoCall
SpecQueue == InitQueue /\ [][NextSync]_vars

\* ===================================================== dramabox_scraper
\* The chapterList of the drama's detail: chapterIndex and chapterId.
ScraperEpisodes == <<[chapterIndex |-> 0, chapterId |-> "a"],
                     [chapterIndex |-> 1, chapterId |-> "b"]>>

\* Lines 160-165: the episode_*.mp4 files the folder holds before the loop.
CountExisting(names) == Cardinality(names)

\* DramaboxScraper.download_file for episode_<n>.mp4: True at once when the
\* file is there; else the request is refused before the file is opened, or
\* the stream breaks after open() has made the file, or the body is written.
ScraperDownloads(names, n) ==
    IF n \in names
    THEN {[status |-> TRUE, names |-> names]}
    ELSE {[status |-> TRUE, names |-> names \cup {n}],
          [status |-> FALSE, names |-> names \cup {n}],
          [status |-> FALSE, names |-> names]}

\* download_drama, lines 141-165: the detail request, the folder, and the
\* count of the episode files already there.
DownloadDramaStart ==
    /\ pc = "scraper" /\ scraper.at = "idle" /\ scraper.done < MaxOps
    /\ \E only_new \in BOOLEAN, detail \in BOOLEAN :
         scraper' = IF ~detail
                    THEN [scraper EXCEPT !.done = @ + 1]
                    ELSE [scraper EXCEPT
                            !.at = "episodes", !.only_new = only_new, !.ep = 1,
                            !.downloaded_count = CountExisting(scraper.episode_files)]
    /\ UNCHANGED <<net, remote, runs, calls, scope, pc, ops, mode, history, diskVars, scanVars,
                   queueVars, bookVars, batchVars, ret, target_index>>

\* Lines 167-182: one turn of the loop over the episodes.
DownloadDramaEpisode ==
    /\ pc = "scraper" /\ scraper.at = "episodes" /\ scraper.ep <= Len(ScraperEpisodes)
    /\ LET e == ScraperEpisodes[scraper.ep]
       IN IF scraper.only_new /\ e.chapterId \in scraper.downloaded_episode_ids
          THEN scraper' = [scraper EXCEPT !.ep = @ + 1]
          ELSE \E watch \in BOOLEAN :
                 IF ~watch
                 THEN scraper' = [scraper EXCEPT !.ep = @ + 1]
                 ELSE \E d \in ScraperDownloads(scraper.episode_files, e.chapterIndex + 1) :
                        scraper' = [scraper EXCEPT
                            !.ep = @ + 1,
                            !.episode_files = d.names,
                            !.downloaded_count = IF d.status THEN @ + 1 ELSE @,
                            !.downloaded_episode_ids =
                                IF d.status THEN @ \cup {e.chapterId} ELSE @]
    /\ UNCHANGED <<net, remote, runs, calls, scope, pc, ops, mode, history, diskVars, scanVars,
                   queueVars, bookVars, batchVars, ret, target_index>>

\* Lines 184-202: the row of the master list, and the return.
DownloadDramaUpdate ==
    /\ pc = "scraper" /\ scraper.at = "episodes" /\ scraper.ep > Len(ScraperEpisodes)
    /\ scraper' = [scraper EXCEPT !.at = "idle", !.done = @ + 1, !.ep = 0,
                                  !.master = scraper.downloaded_count]
    /\ UNCHANGED <<net, remote, runs, calls, scope, pc, ops, mode, history, diskVars, scanVars,
                   queueVars, bookVars, batchVars, ret, target_index>>

\* download_drama called over and over for one drama.
InitScraper == scope = "scraper" /\ pc = "scraper" /\ mode = "none" /\ InitCommon
NextScraper == DownloadDramaStart \/ DownloadDramaEpisode \/ DownloadDramaUpdate
SpecScraper == InitScraper /\ [][NextScraper]_vars

\* ================================================================ claims
RowsOf(file, id) == {k \in 1..Len(file) : file[k].BookID = id}
InQueue(b) == \E j \in 1..Len(queue) : queue[j] = b

\* C1: when the history filter of the incremental sync has gone through the
\* scanned entries, an entry is in the work queue exactly when the ledger, as
\* the entry's lookup read it, has no row for the entry's id or the entry's
\* episode count is greater than the row's TotalChapters; the row's Status
\* plays no part.  (A lookup whose read failed sees an empty ledger.)
C1_QueuedIffStale ==
    pc = "auto_filtered" =>
        \A i \in 1..Len(all_books) :
            LET b == all_books[i]
                rows == IF lookups[i] THEN RowsOf(history, b.id) ELSE {}
            IN InQueue(b) <=>
                   (rows = {} \/ \E k \in rows : b.chapterCount > history[k].TotalChapters)

\* C1 witness: the filter has read the ledger for two entries; one has a
\* Partial row that already counts as many episodes and is left out, the
\* other has a row with fewer episodes and is queued.
C1_Witness ==
    /\ pc = "auto_filtered"
    /\ \E i, j \in 1..Len(all_books) :
         /\ lookups[i] /\ lookups[j]
         /\ \E k \in RowsOf(history, all_books[i].id) :
              /\ history[k].Status = "Partial"
              /\ history[k].TotalChapters >= all_books[i].chapterCount
         /\ ~InQueue(all_books[i])
         /\ \E k \in RowsOf(history, all_books[j].id) :
              history[k].TotalChapters < all_books[j].chapterCount
         /\ InQueue(all_books[j])

RowOfCall(c) ==
    [BookID |-> c.id, Title |-> c.title, TotalChapters |-> c.n, Status |-> c.status]

\* C2: after two save_to_history calls for the same id, the second of which
\* wrote the file, the ledger holds exactly one row for that id and the row
\* carries the title, episode count and status of the second call; a
\* check_is_downloaded of that id that follows a written save and reads the
\* file returns the row of that save.
C2_SaveTwiceKeepsLatest ==
    Len(calls) = 2 =>
        /\ (/\ calls[1].op = "save" /\ calls[2].op = "save"
            /\ calls[1].id = calls[2].id /\ calls[2].writeOk)
           => /\ Cardinality(RowsOf(history, calls[2].id)) = 1
              /\ \A k \in RowsOf(history, calls[2].id) : history[k] = RowOfCall(calls[2])
        /\ (/\ calls[1].op = "save" /\ calls[1].writeOk
            /\ calls[2].op = "lookup" /\ calls[2].readOk
            /\ calls[1].id = calls[2].id)
           => calls[2].result = RowOfCall(calls[1])

\* C2 witness: two written saves of one id with different title, count and
\* status, made on a ledger that also holds another id's row, leave one row
\* of the id with the second call's values.
C2_Witness ==
    /\ Len(calls) = 2
    /\ calls[1].op = "save" /\ calls[2].op = "save"
    /\ calls[1].id = calls[2].id
    /\ calls[1].writeOk /\ calls[1].readOk /\ calls[2].writeOk /\ calls[2].readOk
    /\ calls[1].title # calls[2].title /\ calls[1].n # calls[2].n
    /\ calls[1].status # calls[2].status
    /\ Len(history) = 2
    /\ history[2] = RowOfCall(calls[2])

\* C3: the ledger file never holds two rows with the same BookID, whatever
\* workflows have run and whichever of their ledger reads and writes failed.
C3_OneRowPerId ==
    \A i, j \in 1..Len(history) : history[i].BookID = history[j].BookID => i = j

\* C3 witness: a full-book fetch has just recorded its item in a ledger that
\* holds two items' rows, in the second menu choice of the run.
C3_Witness ==
    /\ pc = "pb_ret" /\ ret = "True" /\ ops = 2
    /\ Len(history) = 2
    /\ history[2].BookID = real_book_id
    /\ history[1].BookID # real_book_id

TaskIds == 1..Len(tasks)
Succeeded == {i \in TaskIds : tstate[i].st = "done" /\ tstate[i].ok}
Failed == {i \in TaskIds : tstate[i].st = "done" /\ ~tstate[i].ok}

\* C4: when the download batch of a full-book fetch has returned, every
\* submitted task has reached one outcome and handed it over, the progress
\* count equals the number of tasks, success_count is the number of
\* successful outcomes, and successes plus failures make up the task count.
C4_BatchAccounting ==
    (pc = "pb_ret" /\ ret = "True") =>
        /\ \A i \in TaskIds : tstate[i].st = "done" /\ tstate[i].taken
        /\ pbar = Len(tasks)
        /\ success_count = Cardinality(Succeeded)
        /\ Cardinality(Succeeded) + Cardinality(Failed) = Len(tasks)

\* C4 witness: a batch of two tasks has returned with one success and one
\* failure, the first submitted task being the failed one.
C4_Witness ==
    /\ pc = "pb_ret" /\ ret = "True"
    /\ Len(tasks) = 2
    /\ ~tstate[1].ok /\ tstate[2].ok
    /\ success_count = 1 /\ pbar = 2

\* A task that download_file has taken past its resume check.
Probed(i) == tstate[i].st # "submitted"
\* download_file returned at line 106.
Skipped(i) == tstate[i].st = "done" /\ tstate[i].ok /\ ~tstate[i].wrote

\* C5 as stated: download_file skips exactly when the destination exists and
\* its size equals the probed size or the probed size is 0, for every local
\* size.
C5_SkipForEveryLocalSize ==
    \A i \in TaskIds :
        Probed(i) =>
            (Skipped(i) <=>
                (/\ tstate[i].local_size >= 0
                 /\ (tstate[i].remote_size = 0
                     \/ tstate[i].local_size = tstate[i].remote_size)))

\* C5 amended: download_file skips and reports success exactly when the
\* destination exists with a size greater than 0 and that size equals the
\* probed size or the probed size is 0; in every other case it goes on to the
\* streamed GET and reports success only after it has opened the destination
\* for overwriting and written the whole body.
C5_SkipForNonEmptyFile ==
    \A i \in TaskIds :
        Probed(i) =>
            /\ Skipped(i) <=>
                   (/\ tstate[i].local_size > 0
                    /\ (tstate[i].remote_size = 0
                        \/ tstate[i].local_size = tstate[i].remote_size))
            /\ (~Skipped(i) /\ tstate[i].st = "done" /\ tstate[i].ok)
                   => (tstate[i].wrote /\ tasks[i].file \in DOMAIN files)

\* C5 witness: a destination that exists but is empty, with a probe that came
\* back 0, was not skipped: the task went on to the GET.
C5_Witness ==
    \E i \in TaskIds :
        /\ tstate[i].local_size = 0 /\ tstate[i].remote_size = 0
        /\ tstate[i].st = "writing"

\* The assets of the batch were all on disk, each as long as the body the
\* server sends for it, when download_file looked at them.
AllOnDisk == \A i \in TaskIds : tstate[i].local_size = ContentLength(tasks[i].url)

\* C6 as stated: a full-book fetch over assets that are all on disk with the
\* remote length opens no destination for writing and counts every task as a
\* success.
C6_RerunTransfersNothing ==
    (pc = "pb_ret" /\ ret = "True" /\ AllOnDisk) =>
        /\ \A i \in TaskIds : ~tstate[i].wrote
        /\ success_count = Len(tasks)

\* C6 amended: a full-book fetch over assets that are all on disk, each with
\* a size greater than 0 that equals the remote content length, opens no
\* destination for writing and counts every task as a success.
C6_RerunOfNonEmptyAssets ==
    (/\ pc = "pb_ret" /\ ret = "True" /\ AllOnDisk
     /\ \A i \in TaskIds : tstate[i].local_size > 0) =>
        /\ \A i \in TaskIds : ~tstate[i].wrote
        /\ success_count = Len(tasks)

\* C6 witness: the second fetch of an item with two assets, both complete on
\* disk, has returned with two successes and nothing written.
C6_Witness ==
    /\ pc = "pb_ret" /\ ret = "True" /\ ops = 2
    /\ Len(tasks) = 2 /\ AllOnDisk
    /\ \A i \in TaskIds : tstate[i].local_size > 0 /\ ~tstate[i].wrote
    /\ success_count = 2

AllDict(p) == \A i \in 1..Len(p) : p[i].t = "dict"
PageIds(p) == {ItemId(p[i]) : i \in {n \in 1..Len(p) : p[n].t = "dict"}}
EarlierIds(k) == UNION {PageIds(served[j]) : j \in 1..(k - 1)}
BookIds == {all_books[i].id : i \in 1..Len(all_books)}

\* C7: a listing page that returned N > 0 items, none with an id that an
\* earlier page had not already given, is the last page of the scan: no
\* request follows it, the scan never goes back to fetching, the entries are
\* those gathered from the earlier pages, and the scan ends on the loop guard.
C7_LoopGuardStops ==
    \A k \in 1..Len(served) :
        (/\ Len(served[k]) > 0 /\ AllDict(served[k])
         /\ PageIds(served[k]) \subseteq EarlierIds(k))
        => /\ k = Len(served) /\ Len(requests) = k
           /\ pc \in {"scan_item", "scan_page_end", "scan_done"}
           /\ BookIds = EarlierIds(k)
           /\ (pc = "scan_done" => stop = "guard")

\* C7 witness: the scan has ended on the loop guard after a third page of two
\* items, both already seen.
C7_Witness ==
    /\ pc = "scan_done" /\ stop = "guard"
    /\ Len(served) = 3 /\ Len(served[3]) = 2
    /\ Len(all_books) = 2

RECURSIVE Flatten(_, _)
Flatten(pages, k) == IF k = 0 THEN <<>> ELSE Flatten(pages, k - 1) \o pages[k]

\* One entry per distinct id of a sequence of items, built from the first
\* item that carries the id.
RECURSIVE FirstOccurrences(_)
FirstOccurrences(its) ==
    IF its = <<>> THEN <<>>
    ELSE LET front == SubSeq(its, 1, Len(its) - 1)
             last == its[Len(its)]
         IN IF \E i \in 1..Len(front) : ItemId(front[i]) = ItemId(last)
            THEN FirstOccurrences(front)
            ELSE Append(FirstOccurrences(front), BookObj(last))

\* C8: the scan asks for pages 1, 2, 3, ... in order, each once; a page
\* without items is the last one asked for and ends the scan; and when the
\* scan has ended on an empty page k, its result is one entry per distinct id
\* of pages 1..k-1, in order of first appearance and with the episode count
\* of the first appearance.
C8_PagesInOrderUntilEmpty ==
    /\ \A i \in 1..Len(requests) : requests[i] = i
    /\ \A k \in 1..Len(served) :
         served[k] = <<>> =>
             /\ k = Len(served) /\ k = Len(requests)
             /\ pc = "scan_done" /\ stop = "empty"
    /\ (pc = "scan_done" /\ stop = "empty") =>
         /\ served[Len(served)] = <<>>
         /\ \A j \in 1..(Len(served) - 1) : served[j] # <<>>
         /\ all_books = FirstOccurrences(Flatten(served, Len(served) - 1))

\* C8 witness: the scan has ended on an empty third page; the second page
\* repeated the id of the first with another episode text, and the entry
\* keeps the count of the first.
C8_Witness ==
    /\ pc = "scan_done" /\ stop = "empty"
    /\ Len(served) = 3 /\ requests = <<1, 2, 3>>
    /\ Len(all_books) = 2
    /\ all_books[1].chapterCount = 2
    /\ \E i \in 1..Len(served[2]) :
         /\ ItemId(served[2][i]) = all_books[1].id
         /\ ParseEpisodeCount(EpisodeText(served[2][i])) = 12

\* C9: at every turn of the scan the accumulated entries have pairwise
\* distinct ids, and their ids are exactly the ids in seen_ids.
C9_EntriesDistinct ==
    /\ \A i, j \in 1..Len(all_books) : all_books[i].id = all_books[j].id => i = j
    /\ BookIds = seen_ids

\* C9 witness: the scan has ended after a page that repeated an id within
\* the page and a later page that repeated an id of an earlier page, with two
\* entries gathered.
C9_Witness ==
    /\ pc = "scan_done"
    /\ Len(all_books) = 2
    /\ \E i, j \in 1..Len(served[1]) : i # j /\ AllDict(served[1])
                                       /\ ItemId(served[1][i]) = ItemId(served[1][j])
    /\ Len(served) >= 2 /\ AllDict(served[2])
    /\ PageIds(served[2]) \cap PageIds(served[1]) # {}
    /\ ~(PageIds(served[2]) \subseteq PageIds(served[1]))

\* The success flag of a detail response is false or absent: 'success' is
\* not truthy and 'status' is not true.
NoSuccessFlag(resp) ==
    /\ resp.success \in {Absent, JFalse}
    /\ resp.status \in {Absent, JFalse, JInt(1)}

\* The response has no data payload: no 'data', null, [] or {}.
NoPayload(resp) ==
    \/ resp.data \in {Absent, JNull, JList(<<>>)}
    \/ (resp.data.t = "dict" /\ resp.data.dramaInfo = Absent /\ resp.data.book = Absent
        /\ resp.data.chapters = Absent /\ resp.data.chapterList = Absent)

\* The episode list of a payload object: 'chapters' when it holds episodes,
\* else 'chapterList', else none.
PayloadEpisodes(d) ==
    IF d.chapters # Absent /\ d.chapters.v # <<>> THEN d.chapters.v
    ELSE IF d.chapterList # Absent THEN d.chapterList.v
    ELSE <<>>

\* C10: in a full-book fetch a detail response is turned away only when it
\* has no success flag and no data payload, and then the call returns False
\* with the ledger, the folders and the files untouched and no task made; a
\* response without success flag but with a data payload is accepted and
\* resolved from the payload.
C10_RejectOnlyWithoutFlagAndPayload ==
    /\ [][(pc = "pb_check" /\ pc' = "pb_ret")
             => (NoSuccessFlag(json_resp) /\ NoPayload(json_resp))]_vars
    /\ [][(pc = "pb_check" /\ NoSuccessFlag(json_resp) /\ NoPayload(json_resp))
             => (/\ pc' = "pb_ret" /\ ret' = "False"
                 /\ UNCHANGED <<history, files, folders, tasks, tstate>>)]_vars
    /\ [][(pc = "pb_ret" /\ ret = "False")
             => UNCHANGED <<history, files, folders>>]_vars
    /\ [][(pc = "pb_check" /\ NoSuccessFlag(json_resp) /\ ~NoPayload(json_resp))
             => (/\ pc' = "pb_setup"
                 /\ total_chapters' = Len(PayloadEpisodes(json_resp.data)))]_vars

\* C10 witness: a response with success false and a payload of one episode
\* has been accepted and resolved to one episode, on a disk and a ledger that
\* an earlier fetch has filled.
C10_Witness ==
    /\ pc = "pb_setup"
    /\ json_resp.success = JFalse /\ json_resp.status = Absent
    /\ json_resp.data.t = "dict"
    /\ total_chapters = 1
    /\ Len(history) = 1 /\ folders # {}

\* C11 as stated: every detail response that passes the acceptance rule is
\* resolved (preferred key, legacy key, or the record made of the argument)
\* and the full-book fetch goes on to its folder, download and ledger steps;
\* it never raises, whatever the data payload is.
C11_ResolutionNeverRaises ==
    [][(pc = "pb_check" /\ ~(NoSuccessFlag(json_resp) /\ NoPayload(json_resp)))
          => (pc' = "pb_setup" /\ ret' # "raised")]_vars

\* Every episode a payload object lists, under either key.
AllEpisodes(d) ==
    (IF d.chapters = Absent THEN <<>> ELSE d.chapters.v)
    \o (IF d.chapterList = Absent THEN <<>> ELSE d.chapterList.v)

CarriesIndex(eps, n) ==
    \E k \in 1..Len(eps) : eps[k].index # Absent /\ eps[k].index.v = n

RepairNotFound == {"not found", "no chapters"}

\* C12: a single-episode repair whose item resolved and whose 0-based index no
\* episode of the item carries returns without a download: no task is made,
\* no folder or file is created or written, and the ledger is unchanged; when
\* the item lists episodes under chapterList the message is the not-found one.
C12_RepairIndexNotFound ==
    /\ [][(/\ pc = "rp_check" /\ Truthy(json_resp.success)
           /\ json_resp.data.t = "dict"
           /\ ~CarriesIndex(AllEpisodes(json_resp.data), target_index))
             => (/\ pc' = "rp_ret" /\ ret' \in RepairNotFound
                 /\ (json_resp.data.chapterList # Absent => ret' = "not found")
                 /\ UNCHANGED <<history, files, folders, tasks, tstate>>)]_vars
    /\ [][(pc = "rp_ret" /\ ret \in RepairNotFound)
             => UNCHANGED <<history, files, folders>>]_vars

\* C12 witness: a repair asked for index 0 of an item whose only episode has
\* index 1 has ended as not found, on a disk and a ledger that an earlier
\* fetch has filled.
C12_Witness ==
    /\ pc = "rp_ret" /\ ret = "not found"
    /\ target_index = 0
    /\ json_resp.data.chapterList = JList(<<Chap4>>)
    /\ tasks = <<>>
    /\ Len(history) = 1 /\ folders # {} /\ files # NoFiles

\* The address an episode gives for an asset kind: the preferred key when it
\* holds one, else the fallback key.
AssetUrl(ep, kind) ==
    IF kind = "mp4"
    THEN (IF Truthy(ep.mp4) THEN ep.mp4 ELSE ep.url)
    ELSE (IF Truthy(ep.cover) THEN ep.cover ELSE ep.thumbnail)

\* The (episode, asset kind) pairs of an episode list, episode by episode,
\* video before cover, and those of them that have an address.
Slots(eps) ==
    [n \in 1..(2 * Len(eps)) |->
        [ep |-> eps[(n + 1) \div 2], kind |-> IF n % 2 = 1 THEN "mp4" ELSE "jpg"]]
HasAddress(slot) == Truthy(AssetUrl(slot.ep, slot.kind))
Assets(eps) == SelectSeq(Slots(eps), HasAddress)

\* C13: a full-book fetch that resolved its item makes one download task per
\* episode and asset kind (video, cover) the episode gives an address for,
\* named by the item id, the episode id and the kind; and the row it writes
\* to the ledger after the batch has status Completed exactly when the
\* number of successful tasks equals the number of submitted tasks, and
\* Partial otherwise.
C13_TasksAndStatus ==
    /\ [][pc = "pb_setup" =>
             LET assets == Assets(PayloadEpisodes(DataContent(json_resp)))
             IN /\ Len(tasks') = Len(assets)
                /\ \A n \in 1..Len(assets) :
                     /\ tasks'[n].url = AssetUrl(assets[n].ep, assets[n].kind).v
                     /\ tasks'[n].file =
                            <<BookFolder(real_book_id),
                              PyStr(GetEither(assets[n].ep.id, Absent)),
                              assets[n].kind>>]_vars
    /\ [][(pc = "pb_batch" /\ pc' = "pb_ret" /\ history' # history) =>
             LET row == history'[Len(history')]
             IN /\ row.BookID = real_book_id
                /\ row.TotalChapters = total_chapters
                /\ row.Status \in {"Completed", "Partial"}
                /\ row.Status = "Completed" <=> Cardinality(Succeeded) = Len(tasks)]_vars

\* C13 witness: a fetch of an item with one episode and two assets has
\* returned with the video failed and the cover done, and the item's row
\* says Partial.
C13_Witness ==
    /\ pc = "pb_ret" /\ ret = "True"
    /\ Len(tasks) = 2
    /\ tasks[1].file[3] = "mp4" /\ tasks[2].file[3] = "jpg"
    /\ Cardinality(Succeeded) = 1
    /\ Len(history) = 1
    /\ history[1].BookID = real_book_id /\ history[1].Status = "Partial"

\* The steps of a sync that has a queue to work on.
FetchSteps == {"confirm", "loop", "pb_fetch", "pb_check", "pb_setup", "pb_batch", "pb_ret"}
\* The sync in progress, or the last one made, computed an empty queue and
\* started no full-book fetch.
QueuesNothing ==
    /\ pc = "auto_filtered" => queue = <<>>
    /\ pc \notin FetchSteps

TransferFails(i) ==
    /\ tstate[i].st \in {"get", "writing"} /\ tstate'[i].st = "done"
    /\ \/ tstate[i].st = "get"
       \/ files'[tasks[i].file] < ContentLength(tasks[i].url)

\* C15: a transfer that fails inside one task of a batch ends as that task's
\* failed outcome and touches neither the state of a sibling task nor the
\* batch; every task that has no outcome yet can still take its next step;
\* and the batch leaves its loop only by returning True.
C15_FailureStaysInTask ==
    /\ [][pc = "pb_batch" =>
             \A i \in TaskIds :
                 TransferFails(i) =>
                     /\ ~tstate'[i].ok
                     /\ pc' = "pb_batch" /\ ret' = ret /\ tasks' = tasks
                     /\ success_count' = success_count
                     /\ \A j \in TaskIds \ {i} : tstate'[j] = tstate[j]]_vars
    /\ [](pc = "pb_batch" =>
             \A j \in TaskIds :
                 tstate[j].st # "done"
                     => ENABLED (TaskProbe(j) \/ TaskGet(j) \/ TaskWrite(j)))
    /\ [][pc = "pb_batch" =>
             (pc' = "pb_batch" \/ (pc' = "pb_ret" /\ ret' = "True"))]_vars

\* C15 witness: the stream of the first task broke after part of the body was
\* on disk, the second task then wrote its whole body, and the batch returned
\* True with one success counted.
C15_Witness ==
    /\ pc = "pb_ret" /\ ret = "True"
    /\ Len(tasks) = 2
    /\ tstate[1].wrote /\ ~tstate[1].ok
    /\ files[tasks[1].file] > 0
    /\ files[tasks[1].file] < ContentLength(tasks[1].url)
    /\ tstate[2].wrote /\ tstate[2].ok
    /\ success_count = 1

AllDone == \A i \in TaskIds : tstate[i].st = "done"

\* C16: in a full-book fetch, while some submitted task has no outcome yet,
\* the batch stays where it is: the ledger is not written and the fetch does
\* not return; whenever the fetch has returned True, every task of its batch
\* has its outcome.
C16_JoinBarrier ==
    /\ [][(pc = "pb_batch" /\ ~AllDone)
             => (pc' = "pb_batch" /\ history' = history /\ ret' = ret)]_vars
    /\ [](pc = "pb_ret" /\ ret = "True" => AllDone)

\* C16 witness: the second fetch of an item has returned with its ledger row
\* written after both tasks ended, one by skipping the file already on disk
\* and one by writing its body again.
C16_Witness ==
    /\ pc = "pb_ret" /\ ret = "True" /\ ops = 2
    /\ Len(tasks) = 2 /\ AllDone
    /\ \E i, j \in TaskIds : Skipped(i) /\ tstate[j].wrote /\ tstate[j].ok
    /\ Len(history) = 1 /\ history[1].Status = "Completed"

Writing(i) == tstate[i].st \in {"get", "writing"}

\* C17 as stated: in the batch of a full-book fetch, distinct tasks have
\* distinct destination paths, and no two tasks are in their transfer on the
\* same file at the same time, whatever episode list was resolved.
C17_DistinctDestinations ==
    pc = "pb_batch" =>
        \A i, j \in TaskIds :
            i # j => /\ tasks[i].file # tasks[j].file
                     /\ ~(Writing(i) /\ Writing(j) /\ tasks[i].file = tasks[j].file)

\* The attempts of a get_with_retry call that failed on a RequestException
\* before anything else happened.
FailedFirst(outcomes, n) == \A k \in 1..n : outcomes[k] = "transient"

\* C18: get_with_retry makes at most `retries` attempts; the first response
\* it obtains is returned by the attempt that obtained it, with no attempt
\* after it; the wait after the n-th failed attempt is delay * n; and when
\* all `retries` attempts fail on a transient error it ends by raising.
C18_BoundedRetry ==
    net.call = "get_with_retry" =>
        LET o == net.outcomes
            x == net.out
        IN /\ x.attempts <= net.retries
           /\ \A k \in 1..net.retries :
                (FailedFirst(o, k - 1) /\ o[k] = "response")
                    => (x.result = "response" /\ x.attempts = k
                        /\ Len(x.sleeps) = k - 1)
           /\ \A n \in 1..Len(x.sleeps) : x.sleeps[n] = net.delay * n
           /\ FailedFirst(o, x.attempts) => Len(x.sleeps) = x.attempts
           /\ FailedFirst(o, net.retries)
                => (/\ x.result = "raised" /\ x.exc = "Max retries exceeded"
                    /\ x.attempts = net.retries)

\* C18 witness: a call with the default three attempts and a delay of 2 got
\* its response at the third attempt, after waits of 2 and 4.
C18_Witness ==
    /\ net.call = "get_with_retry"
    /\ net.retries = DefaultRetries /\ net.delay = 2
    /\ net.out.result = "response" /\ net.out.attempts = 3
    /\ net.out.sleeps = <<2, 4>>

\* No HEAD attempt got a response, or the first response is not a 200.
HeadUnusable(heads) ==
    \/ \A k \in 1..HeadRetries : heads[k].r = "none"
    \/ \E k \in 1..HeadRetries :
         /\ heads[k].r = "resp" /\ heads[k].code # 200
         /\ \A j \in 1..(k - 1) : heads[j].r = "none"

\* The declared length of a reply: its content-length when that is a number.
Declared(reply) == IF reply.cl # Absent /\ reply.cl.t = "int" THEN reply.cl.v ELSE 0

\* C19: get_file_size never raises and returns a natural number for every
\* outcome of the HEAD attempts and of the fallback GET; it makes the fallback
\* GET exactly when HEAD gave no response or no 200; it returns 0 when the
\* fallback fails too, and 0 for a missing or malformed content-length.
C19_ProbeNeverRaises ==
    net.call = "get_file_size" =>
        /\ net.out.exc = "none"
        /\ net.out.v \in Nat
        /\ net.out.fallback_used <=> HeadUnusable(net.heads)
        /\ (HeadUnusable(net.heads) /\ net.fallback.r = "none") => net.out.v = 0
        /\ (HeadUnusable(net.heads) /\ net.fallback.r = "resp")
               => net.out.v = Declared(net.fallback)
        /\ ~HeadUnusable(net.heads)
               => net.out.v = Declared(get_head_with_retry(net.heads))

\* C19 witness: two HEAD attempts raised, the third answered 404, the
\* fallback GET answered with a content-length that is no number, and the
\* probe returned 0.
C19_Witness ==
    /\ net.call = "get_file_size"
    /\ net.heads[1].r = "none" /\ net.heads[2].r = "none"
    /\ net.heads[3].r = "resp" /\ net.heads[3].code = 404
    /\ net.fallback.r = "resp" /\ net.fallback.cl = JStr("x")
    /\ net.out.fallback_used /\ net.out.exc = "none" /\ net.out.v = 0

\* A queue workflow (choice 2 or 5) is between its loop and the return of a
\* full-book fetch.
InQueueRun ==
    /\ mode \in {"auto", "force"}
    /\ pc \in {"loop", "pb_fetch", "pb_check", "pb_setup", "pb_batch", "pb_ret"}

\* C20 as stated: in incremental sync and force-all nothing that happens to
\* one entry's full-book fetch ends the workflow.  The loop hands entry qi of
\* the queue to the fetch, the fetch always returns to the loop, the loop then
\* moves to entry qi + 1, and it leaves only after the last entry; the queue
\* itself is not touched on the way.
C20_EveryEntryAttemptedOnce ==
    [][InQueueRun =>
          /\ pc' # "crashed"
          /\ (pc = "loop" /\ qi <= Len(queue))
                => (pc' = "pb_fetch" /\ qi' = qi /\ queue' = queue
                    /\ book_data'.id = queue[qi].id)
          /\ (pc = "loop" /\ qi > Len(queue)) => pc' = "menu"
          /\ pc \in {"pb_fetch", "pb_check", "pb_setup", "pb_batch"}
                => (qi' = qi /\ queue' = queue /\ book_data' = book_data
                    /\ pc' \in {"pb_check", "pb_setup", "pb_batch", "pb_ret"})
          /\ pc = "pb_ret" => (pc' = "loop" /\ qi' = qi + 1 /\ queue' = queue)]_vars

\* The call a step of the ledger harness has just logged.
LastCall(log) == log[Len(log)]

\* C21: a lookup whose read of the ledger file fails reports the id as absent,
\* whatever the file holds, and leaves the file alone; a save whose write
\* fails leaves the file exactly as it was before the call; both calls return
\* to their caller.
C21_LedgerFailuresSwallowed ==
    [][Len(calls') > 0 =>
          /\ (LastCall(calls').op = "lookup" /\ ~LastCall(calls').readOk)
                => (LastCall(calls').result = NoRecord /\ history' = history)
          /\ (LastCall(calls').op = "save" /\ ~LastCall(calls').writeOk)
                => history' = history
          /\ pc' = "ledger"]_vars

\* C21 witness: a save of an id whose write failed left the earlier row of
\* that id in the file, and the lookup of the id that followed, its read
\* failing, reported the id as absent although the file holds its row.
C21_Witness ==
    /\ Len(calls) = 2
    /\ calls[1].op = "save" /\ ~calls[1].writeOk
    /\ calls[2].op = "lookup" /\ ~calls[2].readOk /\ calls[2].id = calls[1].id
    /\ calls[2].result = NoRecord
    /\ RowsOf(history, calls[1].id) # {}
    /\ \A k \in RowsOf(history, calls[1].id) : history[k] # RowOfCall(calls[1])

\* In an incremental sync: no more than MAX_WORKERS tasks are being
\* transferred, every task of the pool belongs to the entry being fetched,
\* and no task exists while the loop picks an entry or resolves its detail.
OneItemInFlight ==
    mode = "auto" =>
        /\ Cardinality(Running) <= MAX_WORKERS
        /\ \A i \in TaskIds : tasks[i].file[1] = BookFolder(real_book_id)
        /\ pc \in {"loop", "pb_fetch", "pb_check", "pb_setup"} => tasks = <<>>

\* C22 as stated: incremental sync fetches its queue one entry at a time; the
\* fetch of the next entry starts only when the batch of the entry before it
\* has joined and that entry's ledger record has been written; tasks of two
\* entries are never in flight together and at most MAX_WORKERS tasks run at
\* a time.
C22_NextAfterJoinAndRecord ==
    /\ []OneItemInFlight
    /\ [][(mode = "auto" /\ pc = "pb_ret" /\ pc' = "loop")
             => (BatchJoined /\ Recorded)]_vars

\* C22, amended: incremental sync fetches its queue one entry at a time; the
\* fetch of the next entry starts only when the fetch before it has returned;
\* a fetch that built a batch leaves it only through the join of all its
\* tasks and the save_to_history call, whose write records the entry or
\* fails and leaves the file as it was; a fetch that returns False had no
\* batch; tasks of two entries are never in flight together and at most
\* MAX_WORKERS tasks run at a time.
C22_NextAfterFetchReturned ==
    /\ []OneItemInFlight
    /\ [][mode = "auto" =>
             /\ (pc = "pb_batch" /\ pc' # "pb_batch")
                   => /\ BatchJoined /\ pc' = "pb_ret" /\ ret' = "True"
                      /\ (Recorded' \/ history' = history)
             /\ (pc = "pb_ret" /\ ret = "False") => tasks = <<>>
             /\ (pc = "pb_ret" /\ ret = "True") => BatchJoined
             /\ pc' = "pb_fetch" => (pc = "loop" /\ tasks = <<>>)]_vars

\* C22 witness: the first entry's batch of six tasks has five of them being
\* transferred and the sixth waiting for a worker.
C22_Witness ==
    /\ mode = "auto" /\ pc = "pb_batch" /\ qi = 1
    /\ Len(tasks) = 6
    /\ Cardinality(Running) = MAX_WORKERS
    /\ \E i \in TaskIds : tstate[i].st = "submitted"

\* C23: download_specific_chapter never touches the ledger: from the menu
\* choice to its return, whether the detail request fails, the response is
\* refused, the index is not found, or the video and cover are downloaded or
\* fail, every step leaves the ledger file as it was.
C23_RepairKeepsLedger ==
    [][(mode = "repair" \/ mode' = "repair") => history' = history]_vars

\* C23 witness: a repair has downloaded a file of a book while the ledger
\* holds a row that an earlier full-book fetch wrote.
C23_Witness ==
    /\ mode = "repair" /\ pc = "rp_ret" /\ ret = "done"
    /\ \E i \in TaskIds : tstate[i].wrote /\ tstate[i].ok
    /\ Len(history) = 1

\* C24 as stated: repair resolves a detail response as the full-book fetch
\* does.  Whenever the rule of process_book_parallel accepts the response
\* and resolves it to an episode list that holds an episode with the index
\* asked for, download_specific_chapter finds that episode and goes on to
\* its downloads.
C24_RepairResolvesLikeFetch ==
    [][(/\ pc = "rp_check"
        /\ ~Rejected(json_resp) /\ ~ResolveRaises(json_resp)
        /\ CarriesIndex(Chapters(json_resp), target_index))
          => pc' = "rp_download"]_vars

\* C25 as stated, for the fetches whose ledger write went through: when a
\* full-book fetch asked for id X returns True, the ledger holds a row keyed
\* by X and a lookup of X finds it, whatever accepted payload the detail
\* response carried.
C25_RecordKeyedByRequestedId ==
    [][(pc = "pb_batch" /\ pc' = "pb_ret" /\ ret' = "True" /\ history' # history)
          => /\ RowsOf(history', book_data.id) # {}
             /\ check_is_downloaded(history', TRUE, book_data.id) # NoRecord]_vars

\* The rows a ledger file holds for an id.
RecordsOf(file, id) == {file[k] : k \in RowsOf(file, id)}

\* C26 as stated: save_to_history for an id changes the rows of that id only;
\* the rows of every other id are the same after the call as before it, also
\* when the read of the file inside the call fails.
C26_SaveKeepsOtherRecords ==
    [][(Len(calls') > 0 /\ LastCall(calls').op = "save")
          => \A y \in LedgerIds \ {LastCall(calls').id} :
                RecordsOf(history', y) = RecordsOf(history, y)]_vars

\* The ids a listing server over CatalogItems can send.
CatalogIds == {ItemId(it) : it \in {c \in CatalogItems : c.t = "dict"}}

\* C27: the catalog scan ends for every behaviour of a server whose ids come
\* from a finite set.  Every page after which the scan went on to another
\* request gave an id that no earlier page had given, so the number of pages
\* requested is at most the number of ids seen plus one, which is at most
\* the number of ids the server has plus one; and the scan does end.
C27_ScanTerminates ==
    /\ [](/\ \A k \in 1..Len(served) :
               k < Len(requests) => ~(PageIds(served[k]) \subseteq EarlierIds(k))
          /\ Len(requests) <= Cardinality(seen_ids) + 1
          /\ seen_ids \subseteq CatalogIds)
    /\ <>(pc = "scan_done")

\* C27 witness: the scan has ended after as many requests as the server has
\* ids plus one, the last of them answered by a page of ids already seen.
C27_Witness ==
    /\ pc = "scan_done" /\ stop = "guard"
    /\ seen_ids = CatalogIds
    /\ Len(requests) = Cardinality(CatalogIds) + 1

\* The request for the last page asked for failed: it has no answer.
PageFetchFailed == Len(requests) = Len(served) + 1

\* C28: when the request for page k fails, the scan ends there without
\* raising: page k was asked for once, no later page is asked for, and the
\* result is one entry per distinct id of pages 1..k-1, in order of first
\* appearance.
C28_FailedPageEndsScan ==
    PageFetchFailed =>
        /\ pc = "scan_done" /\ stop = "error"
        /\ \A i \in 1..Len(requests) : requests[i] = i
        /\ \A j \in 1..Len(served) : served[j] # <<>> /\ AllDict(served[j])
        /\ all_books = FirstOccurrences(Flatten(served, Len(served)))
        /\ Len(all_books) = Cardinality(BookIds)

\* C28 witness: the request for page 3 failed after two pages that gave one
\* new id each, the second repeating an id of the first; the scan has ended
\* with the two entries.
C28_Witness ==
    /\ PageFetchFailed /\ pc = "scan_done"
    /\ requests = <<1, 2, 3>>
    /\ Len(served[2]) = 2
    /\ Len(all_books) = 2

\* C29 as stated: when download_drama has completed, the 'Episodes
\* Downloaded' value of the drama's row in the master list is the number of
\* episode_*.mp4 files in the drama's folder, on a first run and on every
\* run over a folder that already holds episode files, with only_new true or
\* false.
C29_MasterCountsEpisodeFiles ==
    (scraper.at = "idle" /\ scraper.master # -1)
        => scraper.master = Cardinality(scraper.episode_files)

====
